---- MODULE Spec2Model ----
(***************************************************************************)
(* Model of the SQL generation pipeline of the incident chatbot            *)
(* (src/llm_sql_generator1.py): intent shortcuts, the language-model       *)
(* client, cleaning, validation, repair, and generate_sql behind its       *)
(* lru_cache(maxsize=200).                                                 *)
(*                                                                         *)
(* A Python str is a sequence of one-character strings, so that substring  *)
(* tests, case folding, trimming and the regular expressions of the source *)
(* are computed character by character.  The model's alphabet is ASCII.    *)
(***************************************************************************)
EXTENDS Integers, Sequences, FiniteSets, TLC

(***************************************************************************)
(* Python str primitives used by the source                                *)
(***************************************************************************)
LowerLetters ==
    <<"a","b","c","d","e","f","g","h","i","j","k","l","m","n","o","p","q","r","s","t","u","v",
      "w","x","y","z">>

UpperLetters ==
    <<"A","B","C","D","E","F","G","H","I","J","K","L","M","N","O","P","Q","R","S","T","U","V",
      "W","X","Y","Z">>

\* the character U+0060 (a string literal of the language cannot hold it)
Backtick == "<backtick>"

DigitChars == {"0","1","2","3","4","5","6","7","8","9"}

\* str.strip() and the regex class \s, on the model's alphabet
Whitespace == {" ", "\n", "\t"}

\* the regex class \w, on the model's alphabet
WordChars ==
    {LowerLetters[i] : i \in 1..26} \cup {UpperLetters[i] : i \in 1..26}
        \cup DigitChars \cup {"_"}

UpperSet == {UpperLetters[i] : i \in 1..26}

LowerSet == {LowerLetters[i] : i \in 1..26}

lower_char(c) ==
    IF c \in UpperSet THEN LowerLetters[CHOOSE i \in 1..26 : UpperLetters[i] = c] ELSE c

upper_char(c) ==
    IF c \in LowerSet THEN UpperLetters[CHOOSE i \in 1..26 : LowerLetters[i] = c] ELSE c

\* str.lower()
lower(s) == <<>> \o [i \in 1..Len(s) |-> lower_char(s[i])]

\* str.upper()
upper(s) == <<>> \o [i \in 1..Len(s) |-> upper_char(s[i])]

SetMin(S) == CHOOSE x \in S : \A y \in S : x <= y

\* p occurs in s at position i
MatchAt(s, i, p) ==
    i >= 1 /\ i + Len(p) - 1 <= Len(s) /\ \A j \in 1..Len(p) : s[i + j - 1] = p[j]

\* p occurs in s at position i, letter case ignored (re.IGNORECASE)
MatchAtI(s, i, p) ==
    /\ i >= 1
    /\ i + Len(p) - 1 <= Len(s)
    /\ \A j \in 1..Len(p) : lower_char(s[i + j - 1]) = lower_char(p[j])

\* the Python test `p in s`
contains(s, p) == \E i \in 1..(Len(s) - Len(p) + 1) : MatchAt(s, i, p)

\* any(x in s for x in ps)
contains_any(s, ps) == \E p \in ps : contains(s, p)

\* str.startswith
startswith(s, p) == MatchAt(s, 1, p)

\* str.endswith
endswith(s, p) == MatchAt(s, Len(s) - Len(p) + 1, p)

\* the end of the maximal run of characters of class cls that starts at i
\* (i - 1 when s[i] is not in cls): a greedy regex quantifier
RunEnd(s, i, cls) ==
    IF \A j \in i..Len(s) : s[j] \in cls THEN Len(s)
    ELSE (CHOOSE j \in i..Len(s) : s[j] \notin cls /\ \A k \in i..(j - 1) : s[k] \in cls) - 1

\* the start of the maximal run of characters of class cls that ends at i
\* (i + 1 when s[i] is not in cls)
RunStart(s, i, cls) ==
    IF \A j \in 1..i : s[j] \in cls THEN 1
    ELSE (CHOOSE j \in 1..i : s[j] \notin cls /\ \A k \in (j + 1)..i : s[k] \in cls) + 1

\* str.rstrip(chars)
rstrip(s, chars) == SubSeq(s, 1, RunStart(s, Len(s), chars) - 1)

\* str.strip()
strip(s) == SubSeq(s, RunEnd(s, 1, Whitespace) + 1, RunStart(s, Len(s), Whitespace) - 1)

(***************************************************************************)
(* Regular expressions of the source.  A pattern is a record; MatchLen is  *)
(* the length of its match anchored at position i, 0 when it does not      *)
(* match there (no pattern of the source matches the empty string).        *)
(*   fence  : ```(sql)?            with re.IGNORECASE                      *)
(*   clause : <word>\s+\w+         with re.IGNORECASE                      *)
(*   quoted : ['"]<word>['"]       with re.IGNORECASE                      *)
(***************************************************************************)
MatchLen(pat, s, i) ==
    CASE pat.kind = "fence" ->
            IF MatchAt(s, i, <<Backtick,Backtick,Backtick>>)
            THEN IF MatchAtI(s, i + 3, <<"s","q","l">>) THEN 6 ELSE 3
            ELSE 0
      [] pat.kind = "clause" ->
            LET n  == Len(pat.word)
                ws == RunEnd(s, i + n, Whitespace)
                id == RunEnd(s, ws + 1, WordChars)
            IN  IF MatchAtI(s, i, pat.word) /\ ws >= i + n /\ id >= ws + 1
                THEN id - i + 1
                ELSE 0
      [] pat.kind = "quoted" ->
            LET n == Len(pat.word)
            IN  IF /\ i + n + 1 <= Len(s)
                   /\ s[i] \in {"'", "\""}
                   /\ MatchAtI(s, i + 1, pat.word)
                   /\ s[i + n + 1] \in {"'", "\""}
                THEN n + 2
                ELSE 0

\* re.sub(pat, repl, s): every non-overlapping match, scanning left to right.
\* From position i the next match starts at the first position >= i where
\* the pattern matches; the scan resumes after that match.
re_sub(pat, repl, s) ==
    LET scan[i \in 1..(Len(s) + 1)] ==
            LET hits == {j \in i..Len(s) : MatchLen(pat, s, j) > 0}
            IN  IF hits = {} THEN SubSeq(s, i, Len(s))
                ELSE LET m == SetMin(hits)
                     IN  SubSeq(s, i, m - 1) \o repl \o scan[m + MatchLen(pat, s, m)]
    IN  scan[1]

(***************************************************************************)
(* CONFIG                                                                  *)
(***************************************************************************)
TABLE_NAME ==
    <<"t","i","c","k","e","t","d","e","t","a","i","l","s">>

\* the dict STATUS_MAP, in insertion order
STATUS_MAP ==
    << << <<"n","e","w"," ","i","n","c","i","d","e","n","t">>, <<"N","e","w">> >>,
       << <<"n","e","w"," ","c","a","s","e">>, <<"N","e","w">> >>,
       << <<"p","e","n","d","i","n","g">>, <<"N","e","w">> >>,
       << <<"o","p","e","n">>, <<"N","e","w">> >>,
       << <<"i","n"," ","p","r","o","g","r","e","s","s">>,
         <<"I","n"," ","P","r","o","g","r","e","s","s">> >>,
       << <<"a","s","s","i","g","n"," ","t","o"," ","g","r","o","u","p">>,
         <<"A","s","s","i","g","n"," ","t","o"," ","G","r","o","u","p">> >> >>

\* Python's None, and an exception leaving a call: values no str equals
None == <<"<None>">>

Raised == <<"<raise>">>

(***************************************************************************)
(* FAST INTENT ROUTING                                                     *)
(***************************************************************************)
\* re.search(r'inc[\-\s]?(\d+)', q): group 1 of the leftmost match, None
\* when there is none.  The optional separator is taken when digits follow
\* it; without it the digits must follow "inc" directly.
inc_digits_at(q, i) ==
    IF ~MatchAt(q, i, <<"i","n","c">>) THEN 0
    ELSE IF /\ i + 4 <= Len(q)
            /\ q[i + 3] \in ({"-"} \cup Whitespace)
            /\ q[i + 4] \in DigitChars
         THEN i + 4
         ELSE IF i + 3 <= Len(q) /\ q[i + 3] \in DigitChars THEN i + 3 ELSE 0

\* inc_search taking the whole match (group 0) for the incident id
inc_search_whole_match(q) ==
    LET hits == {i \in 1..Len(q) : inc_digits_at(q, i) > 0}
    IN  IF hits = {} THEN None
        ELSE SubSeq(q, SetMin(hits), RunEnd(q, inc_digits_at(q, SetMin(hits)), DigitChars))

inc_search(q) ==
    LET hits == {i \in 1..Len(q) : inc_digits_at(q, i) > 0}
    IN  IF hits = {} THEN None
        ELSE LET d == inc_digits_at(q, SetMin(hits))
             IN  SubSeq(q, d, RunEnd(q, d, DigitChars))

\* the fixed parts of the statements fast_intent returns, around {TABLE_NAME}
sql_pending_head ==
    <<"S","E","L","E","C","T"," ","C","O","U","N","T","(","*",")"," ","A","S"," ","t","o","t",
      "a","l","_","p","e","n","d","i","n","g"," ","F","R","O","M"," ">>

sql_pending_tail ==
    <<" ","W","H","E","R","E"," ","T","i","c","k","e","t","S","t","a","t","u","s","=","'","P",
      "e","n","d","i","n","g","'",";">>

sql_open_head ==
    <<"S","E","L","E","C","T"," ","I","n","c","i","d","e","n","t","I","D",","," ","T","i","c",
      "k","e","t","S","t","a","t","u","s",","," ","A","s","s","i","g","n","P","e","r","s","o",
      "n"," ","F","R","O","M"," ">>

sql_open_tail ==
    <<" ","W","H","E","R","E"," ","T","i","c","k","e","t","S","t","a","t","u","s"," ","I","N",
      " ","(","'","O","p","e","n","'",",","'","I","n"," ","P","r","o","g","r","e","s","s","'",
      ",","'","A","s","s","i","g","n"," ","t","o"," ","G","r","o","u","p","'",")"," ","O","R",
      "D","E","R"," ","B","Y"," ","i","d"," ","D","E","S","C"," ","L","I","M","I","T"," ","5",
      "0",";">>

sql_latest_head ==
    <<"S","E","L","E","C","T"," ","I","n","c","i","d","e","n","t","I","D",","," ","T","i","c",
      "k","e","t","S","t","a","t","u","s",","," ","T","i","c","k","e","t","S","u","b","m","i",
      "t","t","e","d","D","a","t","e","T","i","m","e"," ","F","R","O","M"," ">>

sql_latest_tail ==
    <<" ","O","R","D","E","R"," ","B","Y"," ","i","d"," ","D","E","S","C"," ","L","I","M","I",
      "T"," ","5","0",";">>

sql_new_tail ==
    <<" ","W","H","E","R","E"," ","T","i","c","k","e","t","S","t","a","t","u","s","=","'","N",
      "e","w","'"," ","O","R","D","E","R"," ","B","Y"," ","i","d"," ","D","E","S","C"," ","L",
      "I","M","I","T"," ","5","0",";">>

sql_lookup_head ==
    <<"S","E","L","E","C","T"," ","T","i","c","k","e","t","S","t","a","t","u","s"," ","F","R",
      "O","M"," ">>

sql_lookup_mid ==
    <<" ","W","H","E","R","E"," ","I","n","c","i","d","e","n","t","I","D","=","'">>

pending_words == {<<"p","e","n","d","i","n","g">>,
        <<"b","e","l","u","m"," ","t","u","t","u","p">>}

count_words == {<<"h","o","w"," ","m","a","n","y">>, <<"b","e","r","a","p","a">>,
        <<"c","o","u","n","t">>, <<"j","u","m","l","a","h">>}

open_words == {<<"o","p","e","n">>, <<"b","e","l","u","m"," ","t","u","t","u","p">>,
        <<"m","a","s","i","h"," ","b","u","k","a">>}

latest_words == {<<"l","a","t","e","s","t">>, <<"t","e","r","k","i","n","i">>,
        <<"b","a","r","u">>}

new_case_words == {<<"n","e","w"," ","c","a","s","e">>, <<"n","e","w"," ","c","a","s","e","s">>,
        <<"k","e","s"," ","b","a","r","u">>}

\* fast_intent testing the open-list keywords before the pending count
fast_intent_open_first(question) ==
    LET q == lower(question)
    IN  IF contains_any(q, open_words)
        THEN sql_open_head \o TABLE_NAME \o sql_open_tail
        ELSE IF /\ contains_any(q, pending_words)
                /\ contains_any(q, count_words)
        THEN sql_pending_head \o TABLE_NAME \o sql_pending_tail
        ELSE IF contains_any(q, latest_words)
        THEN sql_latest_head \o TABLE_NAME \o sql_latest_tail
        ELSE IF contains_any(q, new_case_words)
        THEN sql_latest_head \o TABLE_NAME \o sql_new_tail
        ELSE IF inc_search(q) # None
        THEN sql_lookup_head \o TABLE_NAME \o sql_lookup_mid \o inc_search(q) \o <<"'",";">>
        ELSE None

fast_intent(question) ==
    LET q == lower(question)
    IN  IF /\ contains_any(q, pending_words)
           /\ contains_any(q, count_words)
        THEN sql_pending_head \o TABLE_NAME \o sql_pending_tail
        ELSE IF contains_any(q, open_words)
        THEN sql_open_head \o TABLE_NAME \o sql_open_tail
        ELSE IF contains_any(q, latest_words)
        THEN sql_latest_head \o TABLE_NAME \o sql_latest_tail
        ELSE IF contains_any(q, new_case_words)
        THEN sql_latest_head \o TABLE_NAME \o sql_new_tail
        ELSE IF inc_search(q) # None
        THEN sql_lookup_head \o TABLE_NAME \o sql_lookup_mid \o inc_search(q) \o <<"'",";">>
        ELSE None

(***************************************************************************)
(* SQL CLEANING                                                            *)
(***************************************************************************)
\* re.search(r"(SELECT[\s\S]+?;)", s, re.IGNORECASE): the leftmost SELECT
\* that has a semicolon after at least one further character, up to the
\* first such semicolon (the quantifier is lazy); None when there is none
search_select_semi(s) ==
    LET semi(i) == {j \in (i + 7)..Len(s) : s[j] = ";"}
        hits == {i \in 1..Len(s) : MatchAtI(s, i, <<"s","e","l","e","c","t">>) /\ semi(i) # {}}
    IN  IF hits = {} THEN None
        ELSE SubSeq(s, SetMin(hits), SetMin(semi(SetMin(hits))))

\* re.search(r"(SELECT[\s\S]+)", s, re.IGNORECASE): the leftmost SELECT
\* followed by at least one character, through the end of the text
search_select_rest(s) ==
    LET hits == {i \in 1..Len(s) : MatchAtI(s, i, <<"s","e","l","e","c",
            "t">>) /\ i + 6 <= Len(s)}
    IN  IF hits = {} THEN None ELSE SubSeq(s, SetMin(hits), Len(s))

clean_sql(raw) ==
    IF raw = <<>> THEN <<>>
    ELSE LET text == strip(re_sub([kind |-> "fence"], <<>>, raw))
         IN  IF search_select_semi(text) # None THEN strip(search_select_semi(text))
             ELSE IF search_select_rest(text) # None THEN strip(search_select_rest(text))
             ELSE <<>>

(***************************************************************************)
(* SQL VALIDATION                                                          *)
(***************************************************************************)
forbidden ==
    {<<"U","P","D","A","T","E">>, <<"D","E","L","E","T","E">>, <<"I","N","S","E","R","T">>,
            <<"D","R","O","P">>, <<"A","L","T","E","R">>, <<"T","R","U","N","C","A","T","E">>,
            <<"-","-">>}

\* valid_sql with the start-token check only
valid_sql_no_denylist(sql) ==
    IF sql = <<>> THEN FALSE ELSE startswith(strip(upper(sql)), <<"S","E","L","E","C","T">>)

valid_sql(sql) ==
    IF sql = <<>> THEN FALSE
    ELSE LET s == strip(upper(sql))
         IN  IF ~startswith(s, <<"S","E","L","E","C","T">>) THEN FALSE
             ELSE IF contains_any(s, forbidden) THEN FALSE
             ELSE TRUE

(***************************************************************************)
(* SQL REPAIR ENGINE                                                       *)
(***************************************************************************)
\* for k, v in STATUS_MAP.items(): sql = re.sub(rf"['\"]{k}['\"]", f"'{v}'", sql)
fix_status(sql) ==
    LET after[n \in 0..Len(STATUS_MAP)] ==
            IF n = 0 THEN sql
            ELSE re_sub([kind |-> "quoted", word |-> STATUS_MAP[n][1]],
                        <<"'">> \o STATUS_MAP[n][2] \o <<"'">>, after[n - 1])
    IN  after[Len(STATUS_MAP)]

\* if "count(" not in sql.lower() and "limit" not in sql.lower(): append the cap
ensure_limit(sql) ==
    IF ~contains(lower(sql), <<"c","o","u","n","t","(">>) /\ ~contains(lower(sql), <<"l","i",
            "m","i","t">>)
    THEN rstrip(sql, {";"}) \o <<" ","L","I","M","I","T"," ","5","0">>
    ELSE sql

\* if not sql.strip().endswith(";"): sql += ";"
ensure_semicolon(sql) ==
    IF ~endswith(strip(sql), <<";">>) THEN sql \o <<";">> ELSE sql

repair_sql(sql) ==
    IF sql = <<>> THEN sql
    ELSE LET s1 == re_sub([kind |-> "clause", word |-> <<"F","R","O","M">>], <<"F","R","O","M",
            " ">> \o TABLE_NAME, sql)
             s2 == re_sub([kind |-> "clause", word |-> <<"W","H","E","R","E">>], <<"W","H","E",
                     "R","E"," ","T","i","c","k","e","t","S","t","a","t","u","s">>, s1)
             s3 == fix_status(s2)
             s4 == ensure_limit(s3)
         IN  ensure_semicolon(s4)

(***************************************************************************)
(* OLLAMA CLIENT                                                           *)
(* What one request to the generation service can do is an outcome record: *)
(*   connection_error, timeout : session.post raises                       *)
(*   http_error                : r.raise_for_status() raises               *)
(*   malformed_json            : r.json() raises                           *)
(*   not_an_object             : r.json() is no dict, .get raises          *)
(*   response_not_str          : "response" is no str, .strip() raises     *)
(*   no_response_key           : the payload has no "response" key         *)
(*   ok                        : the payload carries the text `response`   *)
(***************************************************************************)
RaisingKinds ==
    {"connection_error", "timeout", "http_error", "malformed_json", "not_an_object",
     "response_not_str"}

\* the body of the try block of call_llm: the text, or Raised
call_llm_try(o) ==
    IF o.kind \in RaisingKinds THEN Raised
    ELSE IF o.kind = "no_response_key" THEN strip(<<>>)
    ELSE strip(o.response)

\* call_llm as a client without its except clause would behave
call_llm_uncaught(o) == call_llm_try(o)

\* try: ... except Exception: return ""
call_llm(o) == IF call_llm_try(o) = Raised THEN <<>> ELSE call_llm_try(o)

(***************************************************************************)
(* MAIN GENERATOR                                                          *)
(* The body of generate_sql for a question, given the outcome o of the     *)
(* service request it makes if it makes one.  The result records           *)
(*   ret      : the returned value (a statement, None, or Raised),         *)
(*   calls    : the number of call_llm invocations made,                   *)
(*   llm      : for each of them, <<outcome, value call_llm gave back>>,   *)
(*   cleaned  : the texts handed to valid_sql,                             *)
(*   repaired : the texts handed to repair_sql.                            *)
(***************************************************************************)
Result(ret, calls, llm, cleaned, repaired) ==
    [ret |-> ret, calls |-> calls, llm |-> llm, cleaned |-> cleaned,
     repaired |-> repaired]

\* generate_sql with the repair applied before the validation
generate_sql_repair_first(question, o) ==
    LET fast == fast_intent(question)
        raw  == call_llm(o)
        sql  == repair_sql(clean_sql(raw))
    IN  IF fast # None /\ fast # <<>> THEN Result(strip(fast), 0, {}, {}, {})
        ELSE IF raw = Raised THEN Result(Raised, 1, {<<o, raw>>}, {}, {})
        ELSE IF raw = <<>> THEN Result(None, 1, {<<o, raw>>}, {}, {})
        ELSE IF ~valid_sql(sql)
        THEN Result(None, 1, {<<o, raw>>}, {clean_sql(raw)}, {clean_sql(raw)})
        ELSE Result(strip(sql), 1, {<<o, raw>>}, {clean_sql(raw)}, {clean_sql(raw)})

\* generate_sql asking the language model before trying the intent shortcuts
generate_sql_llm_first(question, o) ==
    LET fast == fast_intent(question)
        raw  == call_llm(o)
    IN  IF raw = Raised THEN Result(Raised, 1, {<<o, raw>>}, {}, {})
        ELSE IF fast # None /\ fast # <<>>
        THEN Result(strip(fast), 1, {<<o, raw>>}, {}, {})
        ELSE Result(None, 1, {<<o, raw>>}, {}, {})

generate_sql(question, o) ==
    LET fast == fast_intent(question)
        raw  == call_llm(o)
        sql  == clean_sql(raw)
    IN  IF fast # None /\ fast # <<>> THEN Result(strip(fast), 0, {}, {}, {})
        ELSE IF raw = Raised THEN Result(Raised, 1, {<<o, raw>>}, {}, {})
        ELSE IF raw = <<>> THEN Result(None, 1, {<<o, raw>>}, {}, {})
        ELSE IF ~valid_sql(sql) THEN Result(None, 1, {<<o, raw>>}, {sql}, {})
        ELSE Result(strip(repair_sql(sql)), 1, {<<o, raw>>}, {sql}, {sql})

(***************************************************************************)
(* src/llm_sql_generator.py, the generator the chatbot imports.  Its        *)
(* request to the model either raises (any o.kind but "ok": the except     *)
(* clause of generate_sql returns None) or gives the content o.response.   *)
(***************************************************************************)
\* text.lower().find("select"): the first position, 0 when there is none
find_select(text) ==
    IF \E i \in 1..Len(text) : MatchAtI(text, i, <<"s","e","l","e","c","t">>)
    THEN SetMin({i \in 1..Len(text) : MatchAtI(text, i, <<"s","e","l","e","c","t">>)})
    ELSE 0

\* text[select_index:] when select_index != -1
from_select(text) ==
    IF find_select(text) > 0 THEN SubSeq(text, find_select(text), Len(text)) ELSE text

llm_sql_generator_clean_sql(text) ==
    rstrip(strip(from_select(strip(re_sub([kind |-> "fence"], <<>>, text)))), {";"})

llm_sql_generator_forbidden ==
    {<<"u","p","d","a","t","e">>, <<"d","e","l","e","t","e">>, <<"i","n","s","e","r","t">>,
            <<"d","r","o","p">>, <<"a","l","t","e","r">>, <<"t","r","u","n","c","a","t","e">>}

\* the safety validation of generate_sql on the cleaned text
llm_sql_generator_check(sql) ==
    IF ~startswith(lower(sql), <<"s","e","l","e","c","t">>) THEN None
    ELSE IF contains_any(lower(sql), llm_sql_generator_forbidden) THEN None
    ELSE sql

llm_sql_generator_generate_sql(question, o) ==
    IF o.kind # "ok" THEN None
    ELSE llm_sql_generator_check(llm_sql_generator_clean_sql(o.response))

(***************************************************************************)
(* @lru_cache(maxsize=200)                                                 *)
(* The cache is the sequence of its <<key, value>> entries, least recently *)
(* used first.  The key is the question string as passed.                  *)
(***************************************************************************)
maxsize == 200

\* the position of key in the cache, 0 when it holds no entry for it
cache_find(c, key) ==
    IF \E i \in 1..Len(c) : c[i][1] = key
    THEN CHOOSE i \in 1..Len(c) : c[i][1] = key
    ELSE 0

\* a hit moves the entry to the most recently used end
cache_touch(c, i) == SubSeq(c, 1, i - 1) \o SubSeq(c, i + 1, Len(c)) \o <<c[i]>>

\* a store that keeps every entry when the cache is full
cache_store_no_evict(c, key, val) ==
    IF cache_find(c, key) > 0 THEN c ELSE Append(c, <<key, val>>)

\* a store that keeps no entry for an absent result
cache_store_skip_none(c, key, val) ==
    IF cache_find(c, key) > 0 \/ val = None THEN c
    ELSE IF Len(c) >= maxsize THEN Append(Tail(c), <<key, val>>)
    ELSE Append(c, <<key, val>>)

\* a store that does not look for an entry made while the value was computed
cache_store_no_recheck(c, key, val) ==
    IF Len(c) >= maxsize THEN Append(Tail(c), <<key, val>>)
    ELSE Append(c, <<key, val>>)

\* after a miss the computed value is stored (None too): unless another call
\* stored the key meanwhile, the least recently used entry makes room when
\* the cache is full
cache_store(c, key, val) ==
    IF cache_find(c, key) > 0 THEN c
    ELSE IF Len(c) >= maxsize THEN Append(Tail(c), <<key, val>>)
    ELSE Append(c, <<key, val>>)

(***************************************************************************)
(* Bounds of the model                                                     *)
(***************************************************************************)
\* generate_sql calls in one run of Spec
MaxOps == 3

\* fragments in one generated text of SpecText
MaxFrags == 3

\* generate_sql calls in one run of SpecText
MaxTextCalls == 2

\* questions asked beyond the capacity of the cache in SpecCap
CapExtra == 3

\* threads calling generate_sql, and the calls they begin, in SpecConc
NThreads == 2

MaxConcCalls == 4

\* fragments in one question of SpecIntent
MaxWords == 2

\* fragments after SELECT in one statement of SpecRepair
MaxRepairFrags == 3

(***************************************************************************)
(* State                                                                   *)
(*   cache    : the lru_cache of generate_sql                              *)
(*   llmCalls : requests made to the generation service so far             *)
(*   nCalls   : generate_sql calls begun so far                            *)
(*   last     : the most recent completed sequential call, with what held  *)
(*              just before it                                             *)
(*   thr      : per thread, the generate_sql call it is in (SpecConc)      *)
(*   done     : questions of the calls that ran the body and returned     *)
(*   text     : the text under test (SpecText)                             *)
(*   app      : the last direct application of a pure function to text     *)
(***************************************************************************)
VARIABLES cache, llmCalls, nCalls, last, thr, done, text, app

vars == <<cache, llmCalls, nCalls, last, thr, done, text, app>>

Threads == 1..NThreads

NoCall ==
    [q |-> None, ret |-> None, hit |-> FALSE, llmBefore |-> 0, llm |-> {},
     cleaned |-> {}, repaired |-> {}, again |-> FALSE, prevRet |-> None, lenBefore |-> 0,
     oldestBefore |-> None, trimVals |-> {}]

IdleThread ==
    [pc |-> "idle", q |-> None, res |-> None, hit |-> FALSE, calls |-> 0,
     afterDone |-> FALSE, raced |-> FALSE]

NoApp == [fn |-> "none", arg |-> <<>>, res |-> <<>>]

cache_keys(c) == {c[i][1] : i \in 1..Len(c)}

(***************************************************************************)
(* Inputs                                                                  *)
(***************************************************************************)
q_pending == <<"h","o","w"," ","m","a","n","y"," ","p","e","n","d","i","n","g">>

q_incident == <<"s","t","a","t","u","s"," ","o","f"," ","I","N","C","-","0","0","2">>

q_list == <<"l","i","s","t"," ","t","i","c","k","e","t","s">>

q_list_padded == <<" ","l","i","s","t"," ","t","i","c","k","e","t","s"," ">>

Questions == {q_pending, q_incident, q_list, q_list_padded}

Ok(response) == [kind |-> "ok", response |-> response]

Failure(kind) == [kind |-> kind, response |-> <<>>]

raw_scenario ==
    <<"S","u","r","e",":","\n",Backtick,Backtick,Backtick,"s","q","l","\n","S","E","L","E","C",
            "T"," ","*"," ","F","R","O","M"," ","w","r","o","n","g","_","t","a","b","l","e"," ",
            "W","H","E","R","E"," ","S","t","a","t","u","s"," ","="," ","'","p","e","n","d","i",
            "n","g","'","\n",Backtick,Backtick,Backtick>>

raw_drop == <<"D","R","O","P"," ","T","A","B","L","E"," ","t",";">>

raw_from_update == <<"S","E","L","E","C","T"," ","a"," ","F","R","O","M"," ","u","p","d","a",
        "t","e">>

raw_two_statements == <<"S","E","L","E","C","T"," ","1",";"," ","S","E","L","E","C","T"," ","2",
        ";">>

raw_empty_select == <<"S","E","L","E","C","T",";"," ","L","I","M","I","T"," ","1",";">>

Outcomes ==
    {Failure(k) : k \in RaisingKinds \cup {"no_response_key"}}
      \cup {Ok(<<>>), Ok(<<" ","\n">>), Ok(raw_scenario), Ok(raw_drop), Ok(raw_from_update),
            Ok(raw_two_statements), Ok(raw_empty_select)}

\* texts the service may answer in SpecText: up to MaxFrags fragments in a row
Fragments ==
    {<<"S","E","L","E","C","T">>, <<";">>, <<"-">>, <<" ","F","R","O","M"," ","t">>,
     <<" ","W","H","E","R","E"," ","c","=","'","o","p","e","n","'">>,
     <<" ","d","r","o","p">>, <<Backtick,Backtick,Backtick,"s","q","l","\n">>}

RECURSIVE Flatten(_)
Flatten(ss) == IF ss = <<>> THEN <<>> ELSE Head(ss) \o Flatten(Tail(ss))

Texts == {Flatten(fs) : fs \in UNION {[1..n -> Fragments] : n \in 1..MaxFrags}}

\* the n-th question of SpecCap: "ticket <n>", n in decimal
RECURSIVE decimal(_)
decimal(n) ==
    LET d == <<"0","1","2","3","4","5","6","7","8","9">>[(n % 10) + 1]
    IN  IF n < 10 THEN <<d>> ELSE decimal(n \div 10) \o <<d>>

cap_question(n) == <<"t","i","c","k","e","t"," ">> \o decimal(n)

\* questions of SpecIntent: up to MaxWords fragments in a row
QuestionWords ==
    {<<"h","o","w"," ","m","a","n","y"," ">>, <<"p","e","n","d","i","n","g"," ">>,
            <<"b","e","l","u","m"," ","t","u","t","u","p"," ">>, <<"o","p","e","n"," ">>,
            <<"l","a","t","e","s","t"," ">>,
     <<"n","e","w"," ","c","a","s","e"," ">>, <<"k","e","s"," ","b","a","r","u"," ">>,
             <<"I","N","C","-","0","0","2"," ">>, <<"i","n","c">>, <<"7">>, <<"x">>}

QuestionTexts == {Flatten(ws) : ws \in UNION {[1..n -> QuestionWords] : n \in 1..MaxWords}}

\* statements handed to repair_sql in SpecRepair: SELECT and up to
\* MaxRepairFrags fragments
RepairFragments ==
    {<<" ","a">>, <<" ","F","R","O","M"," ","t">>, <<" ","W","H","E","R","E"," ","c","=">>,
            <<"'","o","p","e","n","'">>, <<"o","p","e","n","'">>,
            <<" ","L","I","M","I","T"," ","5">>,
     <<" ","C","O","U","N","T","(","*",")">>, <<" ","S","U","M","(","a",")">>, <<";">>, <<" ">>}

RepairTexts ==
    {<<"S","E","L","E","C","T">> \o Flatten(fs) :
        fs \in UNION {[1..n -> RepairFragments] : n \in 0..MaxRepairFrags}}

(***************************************************************************)
(* Initial states                                                          *)
(***************************************************************************)
InitProcess ==
    /\ cache = <<>>
    /\ llmCalls = 0
    /\ nCalls = 0
    /\ last = NoCall
    /\ thr = [t \in Threads |-> IdleThread]
    /\ done = {}
    /\ app = NoApp

Init == InitProcess /\ text = <<>>

InitText == InitProcess /\ text \in Texts

InitIntent == InitProcess /\ text \in QuestionTexts

InitRepair == InitProcess /\ text \in RepairTexts

(***************************************************************************)
(* A sequential call generate_sql(q) through the lru_cache wrapper, the    *)
(* service answering with outcome o if it is asked.  A hit returns the     *)
(* stored value and refreshes the entry; a miss runs the body and stores   *)
(* what it returns; an exception leaves the cache as it was.               *)
(***************************************************************************)
\* the wrapper, given the position i of q in the cache (0 on a miss) and the
\* result r the body gives when it runs
lru_cache_wrapper(q, i, r) ==
    LET hit == i > 0
    IN  /\ cache' = IF hit THEN cache_touch(cache, i)
                    ELSE IF r.ret = Raised THEN cache
                    ELSE cache_store(cache, q, r.ret)
        /\ llmCalls' = IF hit THEN llmCalls ELSE llmCalls + r.calls
        /\ last' = [q |-> q,
                    ret |-> IF hit THEN cache[i][2] ELSE r.ret,
                    hit |-> hit,
                    llmBefore |-> llmCalls,
                    llm |-> IF hit THEN {} ELSE r.llm,
                    cleaned |-> IF hit THEN {} ELSE r.cleaned,
                    repaired |-> IF hit THEN {} ELSE r.repaired,
                    again |-> (last.q = q),
                    prevRet |-> last.ret,
                    lenBefore |-> Len(cache),
                    oldestBefore |-> IF cache = <<>> THEN None ELSE cache[1][1],
                    trimVals |-> {cache[j][2] : j \in
                                    {k \in 1..Len(cache) : strip(cache[k][1]) = strip(q)}}]
        /\ UNCHANGED <<thr, done, text, app>>

GenerateSql(q, o) == lru_cache_wrapper(q, cache_find(cache, q), generate_sql(q, o))

\* the chat session asks any question, the service answers in any way
Ask ==
    /\ nCalls < MaxOps
    /\ nCalls' = nCalls + 1
    /\ \E q \in Questions, o \in Outcomes : GenerateSql(q, o)

Next == Ask

Spec == Init /\ [][Next]_vars

(***************************************************************************)
(* SpecText: one generated text is what the service answers; generate_sql  *)
(* runs on it, and repair_sql is applied to it directly when it passes     *)
(* valid_sql.                                                              *)
(***************************************************************************)
TextQuestions == {q_list, q_incident}

AskText ==
    /\ nCalls < MaxTextCalls
    /\ nCalls' = nCalls + 1
    /\ \E q \in TextQuestions : GenerateSql(q, Ok(text))

ApplyRepair ==
    /\ valid_sql(text)
    /\ app.fn = "none"
    /\ app' = [fn |-> "repair_sql", arg |-> text, res |-> repair_sql(text)]
    /\ UNCHANGED <<cache, llmCalls, nCalls, last, thr, done, text>>

NextText == AskText \/ ApplyRepair

SpecText == InitText /\ [][NextText]_vars

(***************************************************************************)
(* SpecCap: a session that asks one new question after the other, each     *)
(* answered by the service, repeating its last question now and then, until*)
(* more questions than the cache holds have been asked.                    *)
(***************************************************************************)
AskNew ==
    /\ llmCalls < maxsize + CapExtra
    /\ GenerateSql(cap_question(llmCalls + 1), Ok(raw_two_statements))
    /\ UNCHANGED nCalls

AskLastAgain ==
    /\ last.q # None
    /\ ~last.hit
    /\ GenerateSql(last.q, Ok(raw_two_statements))
    /\ UNCHANGED nCalls

AskFirstAgain ==
    /\ llmCalls \in {maxsize - 1, maxsize + 1}
    /\ GenerateSql(cap_question(1), Ok(raw_two_statements))
    /\ UNCHANGED nCalls

NextCap == AskNew \/ AskLastAgain \/ AskFirstAgain

SpecCap == Init /\ [][NextCap]_vars

(***************************************************************************)
(* SpecConc: threads call generate_sql concurrently.  The wrapper looks    *)
(* the key up (a hit returns at once); on a miss the body runs outside any *)
(* lock and may ask the service; the wrapper then stores the value and     *)
(* returns.  Lookup and store are each atomic (they run in C under the     *)
(* interpreter lock).                                                      *)
(***************************************************************************)
ConcQuestions == {q_list, q_pending}

ConcOutcomes == {Failure("timeout"), Ok(raw_scenario), Ok(raw_two_statements)}

Running(t) == thr[t].pc # "idle"

T_Begin(t, q) ==
    LET i == cache_find(cache, q)
    IN  /\ thr[t].pc = "idle"
        /\ nCalls < MaxConcCalls
        /\ nCalls' = nCalls + 1
        /\ IF i > 0
           THEN /\ cache' = cache_touch(cache, i)
                /\ thr' = [thr EXCEPT ![t] =
                              [pc |-> "idle", q |-> q, res |-> cache[i][2], hit |-> TRUE,
                               calls |-> 0, afterDone |-> q \in done, raced |-> FALSE]]
           ELSE /\ cache' = cache
                /\ thr' = [thr EXCEPT ![t] =
                              [pc |-> "body", q |-> q, res |-> None, hit |-> FALSE,
                               calls |-> 0, afterDone |-> q \in done, raced |-> FALSE]]
        /\ UNCHANGED <<llmCalls, last, done, text, app>>

T_Body(t, o) ==
    LET r == generate_sql(thr[t].q, o)
    IN  /\ thr[t].pc = "body"
        /\ thr' = [thr EXCEPT ![t].pc = "store", ![t].res = r.ret,
                              ![t].calls = @ + r.calls,
                              ![t].raced = \E u \in Threads \ {t} :
                                              Running(u) /\ thr[u].q = thr[t].q]
        /\ llmCalls' = llmCalls + r.calls
        /\ UNCHANGED <<cache, nCalls, last, done, text, app>>

T_Return(t) ==
    /\ thr[t].pc = "store"
    /\ cache' = IF thr[t].res = Raised THEN cache
                ELSE cache_store(cache, thr[t].q, thr[t].res)
    /\ thr' = [thr EXCEPT ![t].pc = "idle"]
    /\ done' = done \cup {thr[t].q}
    /\ UNCHANGED <<llmCalls, nCalls, last, text, app>>

NextConc ==
    \E t \in Threads :
        \/ \E q \in ConcQuestions : T_Begin(t, q)
        \/ \E o \in ConcOutcomes : T_Body(t, o)
        \/ T_Return(t)

SpecConc == Init /\ [][NextConc]_vars

(***************************************************************************)
(* SpecIntent: fast_intent applied to a question made of keyword fragments *)
(***************************************************************************)
ApplyFastIntent ==
    /\ app.fn = "none"
    /\ app' = [fn |-> "fast_intent", arg |-> text, res |-> fast_intent(text)]
    /\ UNCHANGED <<cache, llmCalls, nCalls, last, thr, done, text>>

NextIntent == ApplyFastIntent

SpecIntent == InitIntent /\ [][NextIntent]_vars

(***************************************************************************)
(* SpecClean: one generated text is cleaned and validated by the functions *)
(* of both generator modules, and is what the model answers to one         *)
(* generate_sql call of each module.                                       *)
(***************************************************************************)
Applied(fn, res) ==
    /\ app.fn = "none"
    /\ last.q = None
    /\ app' = [fn |-> fn, arg |-> text, res |-> res]
    /\ UNCHANGED <<cache, llmCalls, nCalls, last, thr, done, text>>

ApplyCleanSql == Applied("clean_sql", clean_sql(text))

ApplyValidSql == Applied("valid_sql", valid_sql(text))

ApplyChatCleanSql == Applied("llm_sql_generator.clean_sql", llm_sql_generator_clean_sql(text))

ChatGenerateSql ==
    Applied("llm_sql_generator.generate_sql",
            llm_sql_generator_generate_sql(q_list, Ok(text)))

AskOnce ==
    /\ app.fn = "none"
    /\ last.q = None
    /\ GenerateSql(q_list, Ok(text))
    /\ UNCHANGED nCalls

NextClean ==
    ApplyCleanSql \/ ApplyValidSql \/ ApplyChatCleanSql \/ ChatGenerateSql \/ AskOnce

SpecClean == InitText /\ [][NextClean]_vars

(***************************************************************************)
(* SpecRepair: repair_sql applied to a statement that passes valid_sql,    *)
(* and then to its own result.                                             *)
(***************************************************************************)
ApplyRepairAgain ==
    /\ app.fn = "repair_sql"
    /\ app' = [fn |-> "repair_sql again", arg |-> app.res, res |-> repair_sql(app.res)]
    /\ UNCHANGED <<cache, llmCalls, nCalls, last, thr, done, text>>

NextRepair == ApplyRepair \/ ApplyRepairAgain

SpecRepair == InitRepair /\ [][NextRepair]_vars

(***************************************************************************)
(* Properties                                                              *)
(***************************************************************************)
\* v is a returned statement: neither None nor an exception
is_statement(v) == v # None /\ v # Raised

\* after trimming, v starts with SELECT in any letter case and holds none of
\* the denylisted tokens in any letter case
GeneratedStatement(v) ==
    /\ MatchAtI(strip(v), 1, <<"s","e","l","e","c","t">>)
    /\ \A tok \in forbidden : \A i \in 1..Len(v) : ~MatchAtI(v, i, tok)

semicolons(v) == {i \in 1..Len(v) : v[i] = ";"}

\* an outcome of the service request that is a failure mode: the request
\* fails, or the payload carries no text
failure_mode(o) == o.kind # "ok" \/ o.response = <<>>

\* C1: a generate_sql call whose question fast_intent answers with a
\* statement returns that statement, makes no call_llm invocation and
\* leaves the number of generation-service calls as it was
C1_FastIntentSkipsService ==
    (last.q # None /\ fast_intent(last.q) # None) =>
        /\ last.ret = fast_intent(last.q)
        /\ last.llm = {}
        /\ llmCalls = last.llmBefore

\* a fresh call answered by the incident shortcut, after the service has
\* been asked for another question
C1_Witness ==
    /\ last.q = q_incident
    /\ ~last.hit
    /\ last.llmBefore > 0
    /\ is_statement(last.ret)

\* C2: on the language-model path only texts that pass valid_sql are handed
\* to repair_sql; when the cleaned text fails valid_sql the call returns
\* None, nothing is repaired, and the cache holds None for the question
C2_ValidationPrecedesRepair ==
    /\ \A x \in last.repaired : valid_sql(x)
    /\ \A x \in last.cleaned :
          ~valid_sql(x) =>
              /\ last.ret = None
              /\ last.repaired = {}
              /\ \A i \in 1..Len(cache) : cache[i][1] = last.q => cache[i][2] = None

\* the rejected cleaned text is one that repair_sql would turn into a text
\* that passes valid_sql
C2_Witness ==
    /\ last.cleaned = {raw_from_update}
    /\ ~valid_sql(raw_from_update)
    /\ valid_sql(repair_sql(raw_from_update))
    /\ last.ret = None

\* C3: a generate_sql call with the question of the call completed just
\* before it is a cache hit, returns what that call returned, and makes no
\* call to the generation service
C3_RepeatedQuestionServedFromCache ==
    last.again =>
        /\ last.hit
        /\ last.ret = last.prevRet
        /\ last.llm = {}
        /\ llmCalls = last.llmBefore

\* a language-model-path question asked twice in a row
C3_Witness ==
    /\ last.again
    /\ last.q = q_list
    /\ last.llmBefore > 0
    /\ is_statement(last.ret)

\* C4: every statement generate_sql returns or holds in its cache starts,
\* after trimming, with SELECT and contains no denylisted token; and
\* repair_sql applied to a text that passes valid_sql gives a text that
\* passes valid_sql
C4_StatementsStayReadOnly ==
    /\ is_statement(last.ret) => GeneratedStatement(last.ret)
    /\ \A i \in 1..Len(cache) :
          is_statement(cache[i][2]) => GeneratedStatement(cache[i][2])
    /\ app.fn = "repair_sql" => valid_sql(app.arg) /\ valid_sql(app.res)

\* repair_sql has changed a valid text, and generate_sql has served the
\* statement made from it from the cache
C4_Witness ==
    /\ app.fn = "repair_sql"
    /\ app.res # app.arg
    /\ last.q = q_list
    /\ last.hit
    /\ is_statement(last.ret)

\* C5: a generate_sql call that ends in None leaves no cache entry for its
\* question, and the next call with that question runs the body again
C5_AbsenceIsNotCached ==
    /\ (last.q # None /\ ~last.hit /\ last.ret = None) =>
          last.q \notin cache_keys(cache)
    /\ (last.again /\ last.prevRet = None) => ~last.hit /\ last.llm # {}

\* C6: a generate_sql call whose question equals, after trimming, the
\* trimmed key of a cache entry is a hit that returns the value of such an
\* entry and makes no call to the generation service
C6_CacheKeyedByTrimmedQuestion ==
    last.trimVals # {} =>
        /\ last.hit
        /\ last.ret \in last.trimVals
        /\ llmCalls = last.llmBefore

\* C7: the cache never holds more than maxsize entries; a miss on a full
\* cache stores the new entry and drops the least recently used one
C7_CacheSizeCapped ==
    /\ Len(cache) <= maxsize
    /\ (last.q # None /\ ~last.hit /\ last.lenBefore = maxsize) =>
          /\ Len(cache) = maxsize
          /\ last.q \in cache_keys(cache)
          /\ last.oldestBefore \notin cache_keys(cache)

\* a new question has been stored in a full cache
C7_Witness ==
    /\ last.lenBefore = maxsize
    /\ ~last.hit
    /\ is_statement(last.ret)
    /\ Len(cache) = maxsize

\* C8: a generate_sql call makes at most one call to the generation
\* service, also when it overlaps a call with the same question; a call
\* begun after a call with the same question has returned is a cache hit
\* with no service call; the cache holds one entry per question and no more
\* than maxsize entries
C8_ConcurrentCallsKeepCacheSound ==
    /\ \A t \in Threads :
          /\ thr[t].calls <= 1
          /\ thr[t].afterDone => thr[t].hit /\ thr[t].calls = 0
    /\ Len(cache) <= maxsize
    /\ \A i, j \in 1..Len(cache) : cache[i][1] = cache[j][1] => i = j

\* two overlapping calls with one question have each asked the service, and
\* a third call with it, begun after they returned, was a hit
C8_Witness ==
    \E t, u \in Threads :
        /\ t # u
        /\ thr[t].pc = "idle"
        /\ thr[t].raced
        /\ thr[t].calls = 1
        /\ thr[u].q = thr[t].q
        /\ thr[u].afterDone
        /\ thr[u].hit
        /\ llmCalls = 2

\* C9: whenever the service request fails or carries no text, call_llm
\* returns the empty string and generate_sql returns None; no call_llm
\* invocation and no generate_sql call ends in an exception
C9_ServiceFailuresGiveAbsence ==
    /\ last.ret # Raised
    /\ \A p \in last.llm :
          /\ p[2] # Raised
          /\ failure_mode(p[1]) => p[2] = <<>> /\ last.ret = None

\* the service answered with a non-2xx status
C9_Witness ==
    /\ ~last.hit
    /\ \E p \in last.llm : p[1].kind = "http_error" /\ p[2] = <<>>
    /\ last.ret = None

\* C10: every statement generate_sql returns holds exactly one semicolon,
\* as its last character
C10_SingleTerminatedStatement ==
    is_statement(last.ret) =>
        /\ Cardinality(semicolons(last.ret)) = 1
        /\ last.ret[Len(last.ret)] = ";"

\* the keyword conditions of the intents, on the lowercased question q
asks_pending_count(q) ==
    /\ contains(q, <<"p","e","n","d","i","n","g">>) \/ contains(q, <<"b","e","l","u","m"," ",
            "t","u","t","u","p">>)
    /\ \/ contains(q, <<"h","o","w"," ","m","a","n","y">>)
       \/ contains(q, <<"b","e","r","a","p","a">>)
       \/ contains(q, <<"c","o","u","n","t">>)
       \/ contains(q, <<"j","u","m","l","a","h">>)

asks_open(q) ==
    contains(q, <<"o","p","e","n">>) \/ contains(q, <<"b","e","l","u","m"," ","t","u","t","u",
            "p">>) \/ contains(q, <<"m","a","s","i","h"," ","b","u","k","a">>)

asks_latest(q) ==
    contains(q, <<"l","a","t","e","s","t">>) \/ contains(q, <<"t","e","r","k","i","n",
            "i">>) \/ contains(q, <<"b","a","r","u">>)

asks_new_case(q) ==
    contains(q, <<"n","e","w"," ","c","a","s","e">>) \/ contains(q, <<"n","e","w"," ","c","a",
            "s","e","s">>) \/ contains(q, <<"k","e","s"," ","b","a","r","u">>)

\* the positions of q where a token inc[-\s]?<digits> starts
inc_token_starts(q) ==
    {i \in 1..(Len(q) - 3) :
        /\ q[i] = "i" /\ q[i + 1] = "n" /\ q[i + 2] = "c"
        /\ \/ q[i + 3] \in DigitChars
           \/ /\ q[i + 3] \in {"-", " ", "\n", "\t"}
              /\ i + 4 <= Len(q)
              /\ q[i + 4] \in DigitChars}

\* the digit run of the first such token
first_inc_digits(q) ==
    LET i  == CHOOSE j \in inc_token_starts(q) : \A k \in inc_token_starts(q) : j <= k
        d0 == IF q[i + 3] \in DigitChars THEN i + 3 ELSE i + 4
        e  == CHOOSE j \in d0..Len(q) :
                  /\ \A k \in d0..j : q[k] \in DigitChars
                  /\ j = Len(q) \/ q[j + 1] \notin DigitChars
    IN  SubSeq(q, d0, e)

stmt_pending_count ==
    <<"S","E","L","E","C","T"," ","C","O","U","N","T","(","*",")"," ","A","S"," ","t","o","t",
            "a","l","_","p","e","n","d","i","n","g"," ","F","R","O","M"," ","t","i","c","k","e",
            "t","d","e","t","a","i","l","s"," ","W","H","E","R","E"," ","T","i","c","k","e","t",
            "S","t","a","t","u","s","=","'","P","e","n","d","i","n","g","'",";">>

stmt_lookup(digits) ==
    <<"S","E","L","E","C","T"," ","T","i","c","k","e","t","S","t","a","t","u","s"," ","F","R",
            "O","M"," ","t","i","c","k","e","t","d","e","t","a","i","l","s"," ","W","H","E","R",
            "E"," ","I","n","c","i","d","e","n","t","I","D","=","'">> \o digits \o <<"'",";">>

\* C11: fast_intent answers with the statement of the first intent, in the
\* order pending count, open list, latest list, new-case list, incident
\* lookup, whose keyword condition holds on the lowercased question, and with
\* None when none holds; 'belum tutup' with a counting keyword gives the
\* pending count
C11_IntentsInFixedOrder ==
    app.fn = "fast_intent" =>
        LET q == lower(app.arg)
            p == asks_pending_count(q)
            o == ~p /\ asks_open(q)
            l == ~p /\ ~o /\ asks_latest(q)
            n == ~p /\ ~o /\ ~l /\ asks_new_case(q)
            k == ~p /\ ~o /\ ~l /\ ~n /\ inc_token_starts(q) # {}
        IN  /\ p => app.res = stmt_pending_count
            /\ o => app.res = sql_open_head \o TABLE_NAME \o sql_open_tail
            /\ l => app.res = sql_latest_head \o TABLE_NAME \o sql_latest_tail
            /\ n => app.res = sql_latest_head \o TABLE_NAME \o sql_new_tail
            /\ k => app.res # None /\ startswith(app.res, sql_lookup_head)
            /\ (~p /\ ~o /\ ~l /\ ~n /\ ~k) => app.res = None

\* a question with 'belum tutup' and a counting keyword got the pending count
C11_Witness ==
    /\ app.fn = "fast_intent"
    /\ contains(lower(app.arg), <<"b","e","l","u","m"," ","t","u","t","u","p">>)
    /\ contains(lower(app.arg), <<"h","o","w"," ","m","a","n","y">>)
    /\ app.res = stmt_pending_count

\* C12: a question with a new-case keyword that matches neither the pending
\* count nor the open list is answered with the new-case list
C12_NewCaseKeywordGivesNewCaseList ==
    (/\ app.fn = "fast_intent"
     /\ asks_new_case(lower(app.arg))
     /\ ~asks_pending_count(lower(app.arg))
     /\ ~asks_open(lower(app.arg)))
        => app.res = sql_latest_head \o TABLE_NAME \o sql_new_tail

\* C13 as stated: every question with a token inc[-\s]?<digits> is answered
\* with the status lookup for the digit run of the first such token
C13_IncTokenGivesLookup ==
    (app.fn = "fast_intent" /\ inc_token_starts(lower(app.arg)) # {})
        => app.res = stmt_lookup(first_inc_digits(lower(app.arg)))

\* C13 amended: a question with a token inc[-\s]?<digits> that matches none
\* of the four earlier intents is answered with the status lookup for the
\* digit run of the first such token, and the embedded value is digits only
C13_IncTokenGivesLookupWhenNoEarlierIntent ==
    (/\ app.fn = "fast_intent"
     /\ inc_token_starts(lower(app.arg)) # {}
     /\ ~asks_pending_count(lower(app.arg))
     /\ ~asks_open(lower(app.arg))
     /\ ~asks_latest(lower(app.arg))
     /\ ~asks_new_case(lower(app.arg)))
        => /\ app.res = stmt_lookup(first_inc_digits(lower(app.arg)))
           /\ \A i \in 1..Len(first_inc_digits(lower(app.arg))) :
                 first_inc_digits(lower(app.arg))[i] \in DigitChars

\* the lookup for 002 was given for a question that says more than INC-002
C13_Witness ==
    /\ app.fn = "fast_intent"
    /\ app.arg # <<"I","N","C","-","0","0","2"," ">>
    /\ contains(app.arg, <<"I","N","C","-","0","0","2">>)
    /\ app.res = stmt_lookup(<<"0","0","2">>)

\* a candidate the safety check has to reject: empty, or not starting with
\* SELECT once trimmed, or holding a denylisted token in any letter case
must_reject(c) == c = <<>> \/ ~GeneratedStatement(c)

has_select(s) == \E i \in 1..Len(s) : MatchAtI(s, i, <<"s","e","l","e","c","t">>)

\* C14: valid_sql is false for every candidate that is empty, does not start
\* with SELECT or holds a denylisted token, and each generator returns None
\* when its cleaned candidate is such a text
C14_SafetyCheckRejectsUnsafe ==
    /\ (app.fn = "valid_sql" /\ must_reject(app.arg)) => app.res = FALSE
    /\ \A x \in last.cleaned : must_reject(x) => last.ret = None
    /\ (/\ app.fn = "llm_sql_generator.generate_sql"
        /\ must_reject(llm_sql_generator_clean_sql(app.arg)))
          => app.res = None

\* C15: the non-empty text either clean_sql makes of a text with a SELECT
\* holds no fence marker, starts at SELECT, stops at the first semicolon,
\* and has the trailing whitespace and the trailing semicolon stripped
C15_CleanSqlCanonicalForm ==
    (/\ app.fn \in {"clean_sql", "llm_sql_generator.clean_sql"}
     /\ has_select(app.arg)
     /\ app.res # <<>>)
        => /\ ~contains(app.res, <<Backtick,Backtick,Backtick>>)
           /\ MatchAtI(app.res, 1, <<"s","e","l","e","c","t">>)
           /\ semicolons(app.res) = {}
           /\ app.res[Len(app.res)] \notin Whitespace

\* C16: clean_sql gives the empty string exactly for the texts without a
\* SELECT, and generate_sql returns None without repair when it does
C16_EmptyExactlyWithoutSelect ==
    /\ app.fn = "clean_sql" => ((app.res = <<>>) <=> ~has_select(app.arg))
    /\ \A x \in last.cleaned : x = <<>> => last.ret = None /\ last.repaired = {}

\* the number of places where p occurs in s
occurrences(s, p) == Cardinality({i \in 1..Len(s) : MatchAt(s, i, p)})

\* s calls an aggregate function: COUNT, SUM, AVG, MIN or MAX in any letter
\* case, any whitespace, then an opening parenthesis
has_aggregate(s) ==
    \E name \in {<<"c","o","u","n","t">>, <<"s","u","m">>, <<"a","v","g">>, <<"m","i","n">>,
            <<"m","a","x">>} :
        \E i \in 1..Len(s) :
            /\ MatchAtI(s, i, name)
            /\ RunEnd(s, i + Len(name), Whitespace) + 1 <= Len(s)
            /\ s[RunEnd(s, i + Len(name), Whitespace) + 1] = "("

\* s has a row-limit clause: LIMIT in any letter case, whitespace, a digit
has_limit_clause(s) ==
    \E i \in 1..Len(s) :
        /\ MatchAtI(s, i, <<"l","i","m","i","t">>)
        /\ RunEnd(s, i + 5, Whitespace) >= i + 5
        /\ RunEnd(s, i + 5, Whitespace) + 1 <= Len(s)
        /\ s[RunEnd(s, i + 5, Whitespace) + 1] \in DigitChars

\* the places of s where a clause WHERE <identifier> starts
where_clauses(s) ==
    {i \in 1..Len(s) : MatchLen([kind |-> "clause", word |-> <<"W","H","E","R","E">>], s,
            i) > 0}

\* C17: repair_sql applied to its own result on a valid statement gives
\* that result again
C17_RepairIdempotent ==
    app.fn = "repair_sql again" => app.res = app.arg

\* C18: repair_sql appends the cap LIMIT 50 exactly when the statement calls
\* no aggregate function and has no row-limit clause, and every statement
\* without an aggregate call leaves it with a row-limit clause
C18_CapUnlessAggregateOrLimited ==
    app.fn = "repair_sql" =>
        /\ (occurrences(app.res, <<" ","L","I","M","I","T"," ","5","0">>) > occurrences(app.arg,
                <<" ","L","I","M","I","T"," ","5","0">>))
              <=> (~has_aggregate(app.arg) /\ ~has_limit_clause(app.arg))
        /\ ~has_aggregate(app.arg) => has_limit_clause(app.res)

\* C19: repair_sql rewrites the column of the first WHERE <identifier> only:
\* every later such clause of the statement is still in the result
C19_OnlyFirstWhereRewritten ==
    app.fn = "repair_sql" =>
        \A i \in where_clauses(app.arg) :
            i # SetMin(where_clauses(app.arg)) =>
                contains(app.res,
                         SubSeq(app.arg, i,
                                i + MatchLen([kind |-> "clause", word |-> <<"W","H","E","R",
                                        "E">>],
                                             app.arg, i) - 1))

\* C20: the result of repair_sql on a valid statement ends, whitespace
\* aside, with one semicolon and not with two
C20_ExactlyOneTerminator ==
    app.fn = "repair_sql" =>
        /\ Len(strip(app.res)) >= 2
        /\ strip(app.res)[Len(strip(app.res))] = ";"
        /\ strip(app.res)[Len(strip(app.res)) - 1] # ";"

====
